---- MODULE Spec2Model ----
(***************************************************************************)
(* State-machine model of the storyboard application: the App component's  *)
(* generation pipeline (handleGenerateStoryboard), the per-scene retry and *)
(* edit handlers, and the EditImageModal that calls handleConfirmEdit.     *)
(*                                                                         *)
(* React state is modelled as committed by the handler step that sets it:  *)
(* one action is one synchronous stretch of a handler, from its invocation *)
(* or from the settling of the promise it awaits up to the next await.     *)
(* Updates made in one such stretch are rendered together, and the effects *)
(* of that render run before the next event. A request in flight is the    *)
(* position of the handler that awaits it; the Generation Client's reply   *)
(* is chosen when the request settles. A control can be used whenever it   *)
(* is rendered and not disabled. Scene indices are 1-based here (the       *)
(* source's index + 1).                                                    *)
(***************************************************************************)
EXTENDS Naturals, Sequences, FiniteSets

VARIABLES
    prompt,                 \* App: story idea input (a tuple of characters)
    theme,                  \* App: theme input (a tuple of characters)
    storyboardScenes,       \* App: the Scene Collection
    isLoading,              \* App: busy flag of the pipeline
    error,                  \* App: global error message or Null
    narrative,              \* App: narrative text or Null
    isGeneratingNarrative,  \* App: narrative pending flag
    editingSceneIndex,      \* App: index of the scene shown in EditImageModal or Null
    editPrompt,             \* EditImageModal: edit instruction input
    isEditing,              \* EditImageModal: submit-in-progress flag
    editError,              \* EditImageModal: its error message or Null
    runs,                   \* invocations of handleGenerateStoryboard past their guard
    retries,                \* handleRetryImage requests in flight, per scene index
    edits,                  \* handleConfirmEdit requests in flight, per (index, original image)
    stale,                  \* of those requests, the ones issued before the collection was last replaced
    isVideoModalOpen,       \* App: the isOpen prop of VideoModal
    videoModal,             \* VideoModal: its state (useState) and its two refs
    intervals,              \* the window's active setInterval timers
    keyChecks,              \* hasSelectedApiKey promises pending
    selectKeys,             \* openSelectKey promises pending
    resetTimeouts,          \* setTimeout(resetState, 300) timers pending
    starts,                 \* startVideoGeneration calls in flight, by attempt
    polls,                  \* getVideosOperationStatus calls in flight, per operation name
    fetches,                \* fetches of a finished video in flight, per operation name
    attempts,               \* invocations of VideoModal.handleGenerate past their guard
    objectUrls,             \* operations whose video has an object URL created and not revoked
    fileNames,              \* the file names ExportControls and VideoModal made of the prompt
    exported,               \* the numbered scenes of the last archive and of the last document
    abandoned               \* history: attempts with a call in flight when the modal was closed while generating

storyboardVars ==
    <<prompt, theme, storyboardScenes, isLoading, error, narrative,
      isGeneratingNarrative, editingSceneIndex, editPrompt, isEditing,
      editError, runs, retries, edits, stale>>

videoVars ==
    <<isVideoModalOpen, videoModal, intervals, keyChecks, selectKeys,
      resetTimeouts, starts, polls, fetches, attempts, objectUrls,
      abandoned>>

exportVars == <<fileNames, exported>>

vars == <<storyboardVars, videoVars, exportVars>>

appVars == <<prompt, theme, storyboardScenes, isLoading, error, narrative,
             isGeneratingNarrative, editingSceneIndex>>

modalVars == <<editPrompt, isEditing, editError>>

----
\* Bounds of the model.
MaxScenes == 2      \* longest list of scene descriptions the service returns
MaxRuns == 2        \* slots for invocations of handleGenerateStoryboard
MaxInFlight == 1    \* retry and edit requests in flight at once
MaxAttempts == 2    \* invocations of VideoModal.handleGenerate past their guard
MaxPending == 3     \* promises and timeouts of VideoModal pending at once
MaxNameLen == 3     \* characters of the prompts enumerated for sanitizeFileName
MaxTimers == 3      \* setInterval timers active at once

Null == "null"

\* editingSceneIndex === null (scene indices start at 1 here).
NoScene == 0

RunIds == 1..MaxRuns
SceneIndices == 1..MaxScenes

\* Image payloads the service can return: to an image request, to an edit
\* request.
GeneratedImages == {"imgA"}
EditedImages == {"imgB"}
Images == GeneratedImages \cup EditedImages

\* Values typed into the prompt and theme inputs, as tuples of characters:
\* one of whitespace only, one not. Values typed into the edit-prompt input.
InputStrings == {<<" ">>, <<"a">>}
EditInputStrings == {<<"a">>}

----
\* String.prototype.trim on a tuple of characters.
RECURSIVE TrimStart(_)
TrimStart(s) ==
    IF s = <<>> THEN <<>>
    ELSE IF Head(s) = " " THEN TrimStart(Tail(s)) ELSE s

RECURSIVE TrimEnd(_)
TrimEnd(s) ==
    IF s = <<>> THEN <<>>
    ELSE IF s[Len(s)] = " " THEN TrimEnd(SubSeq(s, 1, Len(s) - 1)) ELSE s

trim(s) == TrimEnd(TrimStart(s))

\* Messages the code produces.
DescriptionsFailedMsg ==
    "Failed to generate storyboard scenes. Please check your API key or try a different prompt."
ImageFailedMsg == "Failed to generate image for a scene."
EditFailedMsg == "Failed to edit the image."
NarrativeFailedMsg == "Failed to generate the story narrative."
NarrativeFallback ==
    "The ancient spirits were silent... we could not weave a narrative for this tale."
NoImageMsg == "Cannot edit a scene with no image."

----
\* Replies of the underlying service.

\* The k-th scene description of a reply.
SceneDescription(k) == [title |-> k, description |-> k]

\* Replies to the scene-description request: the call rejects, the text is
\* not JSON, the JSON is no array, or it is an array (possibly empty).
DescriptionReplies ==
    {[kind |-> k, scenes |-> <<>>] : k \in {"rejected", "unparsable", "nonArray", "array"}}
    \cup {[kind |-> "array", scenes |-> [i \in 1..n |-> SceneDescription(i)]] :
              n \in 1..MaxScenes}

\* Replies to an image or edit request: the call rejects, the first part has
\* no inline data, or it has inline data of some MIME type.
RepliesWith(images) ==
    {[kind |-> k, mimeIsImage |-> FALSE, data |-> Null] : k \in {"rejected", "noInlineData"}}
    \cup {[kind |-> "inlineData", mimeIsImage |-> m, data |-> d] :
              m \in BOOLEAN, d \in images}

ImageReplies == RepliesWith(GeneratedImages)
EditReplies == RepliesWith(EditedImages)

\* Replies to the narrative request.
NarrativeReplies ==
    {[kind |-> "rejected", text |-> Null], [kind |-> "text", text |-> "story"]}

generateSceneDescriptionsAcceptsEmpty(reply) ==
    IF reply.kind = "array"
    THEN [ok |-> TRUE, value |-> reply.scenes]
    ELSE [ok |-> FALSE, value |-> DescriptionsFailedMsg]

\* geminiService.generateSceneDescriptions, from the reply on.
generateSceneDescriptions(reply) ==
    IF reply.kind = "array" /\ Len(reply.scenes) # 0
    THEN [ok |-> TRUE, value |-> reply.scenes]
    ELSE [ok |-> FALSE, value |-> DescriptionsFailedMsg]

\* geminiService.generateSceneImage, from the reply on.
generateSceneImage(reply) ==
    IF reply.kind = "inlineData" /\ reply.mimeIsImage
    THEN [ok |-> TRUE, value |-> reply.data]
    ELSE [ok |-> FALSE, value |-> ImageFailedMsg]

\* geminiService.editSceneImage, from the reply on.
editSceneImage(reply) ==
    IF reply.kind = "inlineData" /\ reply.mimeIsImage
    THEN [ok |-> TRUE, value |-> reply.data]
    ELSE [ok |-> FALSE, value |-> EditFailedMsg]

\* geminiService.generateNarrative, from the reply on.
generateNarrative(reply) ==
    IF reply.kind = "text"
    THEN [ok |-> TRUE, value |-> reply.text]
    ELSE [ok |-> FALSE, value |-> NarrativeFailedMsg]

----
\* Helpers on the Scene Collection.

\* { ...s, ...update }: the fields of update replace those of s.
Spread(s, update) ==
    [field \in DOMAIN s |->
        IF field \in DOMAIN update THEN update[field] ELSE s[field]]

MapSceneAll(prev, index, update) ==
    [i \in 1..Len(prev) |-> Spread(prev[i], update)]

\* prev.map((s, i) => i === index ? { ...s, ...update } : s)
MapScene(prev, index, update) ==
    [i \in 1..Len(prev) |-> IF i = index THEN Spread(prev[i], update) ELSE prev[i]]

InitialScenesReversed(sceneDescriptions) ==
    [i \in 1..Len(sceneDescriptions) |->
        [title |-> sceneDescriptions[Len(sceneDescriptions) + 1 - i].title,
         description |-> sceneDescriptions[Len(sceneDescriptions) + 1 - i].description,
         imageUrl |-> Null,
         isLoadingImage |-> TRUE,
         imageError |-> FALSE]]

\* sceneDescriptions.map(desc => ({...desc, imageUrl: null, isLoadingImage: true, imageError: false}))
InitialScenes(sceneDescriptions) ==
    [i \in 1..Len(sceneDescriptions) |->
        [title |-> sceneDescriptions[i].title,
         description |-> sceneDescriptions[i].description,
         imageUrl |-> Null,
         isLoadingImage |-> TRUE,
         imageError |-> FALSE]]

\* An edit request in flight is identified by what handleConfirmEdit captured:
\* editingSceneIndex and originalScene.imageUrl.
EditKeys == [index : SceneIndices, originalUrl : Images \cup {Null}]

RECURSIVE Total(_, _)
Total(f, S) ==
    IF S = {} THEN 0
    ELSE LET x == CHOOSE y \in S : TRUE IN f[x] + Total(f, S \ {x})

RetriesInFlight == Total(retries, SceneIndices)
EditsInFlight == Total(edits, EditKeys)

\* A run of handleGenerateStoryboard: where it is suspended (pc), the index
\* of the image loop and the local sceneDescriptions.
IdleRun == [pc |-> "idle", index |-> 0, sceneDescriptions |-> <<>>]

ActiveRuns == {r \in RunIds : runs[r].pc # "idle"}

----
\* VideoModal: values of its state.

\* pollingIntervalRef.current / loadingMessageIntervalRef.current === null
NoTimer == 0

TimerIds == 1..MaxTimers

\* Attempts number the start calls; the operation a start call returns is
\* named by its attempt.
AttemptIds == 1..MaxAttempts

\* operation === null
NoOperation == [name |-> 0, done |-> FALSE]

\* The initial state of VideoModal, which is also what resetState sets.
\* loadingMessage, the text the message timer rotates, is display only and
\* is left out; the timer itself is in intervals.
IdleModal ==
    [status |-> "idle",
     operation |-> NoOperation,
     videoUrl |-> Null,
     error |-> Null,
     isCheckingKey |-> TRUE,
     isKeySelected |-> FALSE,
     aspectRatio |-> "16:9",
     pollingIntervalRef |-> NoTimer,
     loadingMessageIntervalRef |-> NoTimer]

VideoPending ==
    keyChecks + selectKeys + resetTimeouts + Cardinality(starts)
        + Total(polls, AttemptIds) + Total(fetches, AttemptIds)

VideoInit ==
    /\ isVideoModalOpen = FALSE
    /\ videoModal = IdleModal
    /\ intervals = {}
    /\ keyChecks = 0
    /\ selectKeys = 0
    /\ resetTimeouts = 0
    /\ starts = {}
    /\ polls = [a \in AttemptIds |-> 0]
    /\ fetches = [a \in AttemptIds |-> 0]
    /\ attempts = 0
    /\ objectUrls = {}
    /\ abandoned = {}

\* No file name has been made yet.
NoFileNames == [export |-> {}, video |-> {}]

\* Nothing has been exported yet.
NoExport == [zip |-> {}, pdf |-> {}]

ExportInit == fileNames = NoFileNames /\ exported = NoExport

----
TypeOK ==
    /\ prompt \in InputStrings
    /\ theme \in InputStrings
    /\ isLoading \in BOOLEAN
    /\ isGeneratingNarrative \in BOOLEAN
    /\ editingSceneIndex \in SceneIndices \cup {NoScene}
    /\ editPrompt \in EditInputStrings \cup {<<>>}
    /\ isEditing \in BOOLEAN
    /\ Len(storyboardScenes) <= MaxScenes
    /\ \A i \in 1..Len(storyboardScenes) :
          /\ storyboardScenes[i].imageUrl \in Images \cup {Null}
          /\ storyboardScenes[i].isLoadingImage \in BOOLEAN
          /\ storyboardScenes[i].imageError \in BOOLEAN
    /\ \A r \in RunIds : runs[r].pc \in {"idle", "desc", "narr", "img"}
    /\ RetriesInFlight + EditsInFlight <= MaxInFlight

\* No request in flight was issued on an earlier collection.
NoneStale ==
    [retries |-> [i \in SceneIndices |-> 0], edits |-> [k \in EditKeys |-> 0]]

Init ==
    /\ prompt = <<"a">>
    /\ theme = <<"a">>
    /\ storyboardScenes = <<>>
    /\ isLoading = FALSE
    /\ error = Null
    /\ narrative = Null
    /\ isGeneratingNarrative = FALSE
    /\ editingSceneIndex = NoScene
    /\ editPrompt = <<>>
    /\ isEditing = FALSE
    /\ editError = Null
    /\ runs = [r \in RunIds |-> IdleRun]
    /\ retries = [i \in SceneIndices |-> 0]
    /\ edits = [k \in EditKeys |-> 0]
    /\ stale = NoneStale
    /\ VideoInit
    /\ ExportInit

----
\* EditImageModal.

\* The modal renders when the scene prop is an object: App passes
\* storyboardScenes[editingSceneIndex], or null.
ModalShown ==
    editingSceneIndex # NoScene /\ editingSceneIndex <= Len(storyboardScenes)

\* useEffect(..., [scene]): after a step that left a scene object in the prop
\* which is not the object of the previous render, the modal's fields are
\* reset; otherwise they keep the values p, e, err the step gave them.
\* written is the set of indices whose records the step replaced.
SceneEffect(written, p, e, err) ==
    LET shownAfter ==
            editingSceneIndex' # NoScene /\ editingSceneIndex' <= Len(storyboardScenes')
        changed ==
            /\ shownAfter
            /\ \/ ~ModalShown
               \/ editingSceneIndex' # editingSceneIndex
               \/ editingSceneIndex' \in written
    IN  IF changed
        THEN editPrompt' = <<>> /\ isEditing' = FALSE /\ editError' = Null
        ELSE editPrompt' = p /\ isEditing' = e /\ editError' = err

KeepModal(written) == SceneEffect(written, editPrompt, isEditing, editError)

----
\* App: the prompt and theme inputs (disabled while isLoading).
SetPrompt ==
    /\ ~isLoading
    /\ \E p \in InputStrings \ {prompt} : prompt' = p
    /\ UNCHANGED <<videoVars, exportVars, stale>>
    /\ UNCHANGED <<theme, storyboardScenes, isLoading, error, narrative,
                   isGeneratingNarrative, editingSceneIndex, modalVars,
                   runs, retries, edits>>

SetTheme ==
    /\ ~isLoading
    /\ \E t \in InputStrings \ {theme} : theme' = t
    /\ UNCHANGED <<videoVars, exportVars, stale>>
    /\ UNCHANGED <<prompt, storyboardScenes, isLoading, error, narrative,
                   isGeneratingNarrative, editingSceneIndex, modalVars,
                   runs, retries, edits>>

----
\* App.handleGenerateStoryboard.

GenerateRejectedIgnoringBusy ==
    trim(prompt) = <<>> \/ trim(theme) = <<>>

GenerateRejectedOnlyBusy == isLoading

\* The guard of handleGenerateStoryboard (the Generate button is disabled
\* under the same condition).
GenerateRejected ==
    trim(prompt) = <<>> \/ trim(theme) = <<>> \/ isLoading

\* Invocation: the guard, then the synchronous prefix up to the await of
\* generateSceneDescriptions. The new run takes the first free slot.
handleGenerateStoryboard ==
    IF GenerateRejected
    THEN UNCHANGED vars
    ELSE /\ \E r \in RunIds :
              /\ runs[r].pc = "idle"
              /\ \A q \in RunIds : q < r => runs[q].pc # "idle"
              /\ runs' = [runs EXCEPT ![r] = [pc |-> "desc", index |-> 0,
                                               sceneDescriptions |-> <<>>]]
         /\ isLoading' = TRUE
         /\ error' = Null
         /\ storyboardScenes' = <<>>
         /\ narrative' = Null
         /\ stale' = [retries |-> retries, edits |-> edits]
         /\ UNCHANGED <<videoVars, exportVars>>
         /\ UNCHANGED <<prompt, theme, isGeneratingNarrative, editingSceneIndex,
                        retries, edits>>
         /\ KeepModal({})

ContinueImagesSkipping(r, next) ==
    IF next + 1 <= Len(runs[r].sceneDescriptions)
    THEN /\ runs' = [runs EXCEPT ![r].pc = "img", ![r].index = next + 1]
         /\ UNCHANGED isLoading
    ELSE /\ runs' = [runs EXCEPT ![r] = IdleRun]
         /\ isLoading' = FALSE

ContinueImagesKeepsLoading(r, next) ==
    IF next <= Len(runs[r].sceneDescriptions)
    THEN /\ runs' = [runs EXCEPT ![r].pc = "img", ![r].index = next]
         /\ UNCHANGED isLoading
    ELSE /\ runs' = [runs EXCEPT ![r] = IdleRun]
         /\ UNCHANGED isLoading

\* The next iteration of the image loop, which issues the request for scene
\* next, or the end of the pipeline (finally: setIsLoading(false)).
ContinueImages(r, next) ==
    IF next <= Len(runs[r].sceneDescriptions)
    THEN /\ runs' = [runs EXCEPT ![r].pc = "img", ![r].index = next]
         /\ UNCHANGED isLoading
    ELSE /\ runs' = [runs EXCEPT ![r] = IdleRun]
         /\ isLoading' = FALSE

DescriptionsSettleStartsImages(r, reply) ==
    LET res == generateSceneDescriptions(reply) IN
    /\ runs[r].pc = "desc"
    /\ IF res.ok
       THEN /\ storyboardScenes' = InitialScenes(res.value)
            /\ isGeneratingNarrative' = TRUE
            /\ runs' = [runs EXCEPT ![r] = [pc |-> "img", index |-> 1,
                                             sceneDescriptions |-> res.value]]
            /\ UNCHANGED <<error, isLoading>>
       ELSE /\ error' = res.value
            /\ isLoading' = FALSE
            /\ runs' = [runs EXCEPT ![r] = IdleRun]
            /\ UNCHANGED <<storyboardScenes, isGeneratingNarrative>>
    /\ UNCHANGED <<videoVars, exportVars, stale>>
    /\ UNCHANGED <<prompt, theme, narrative, editingSceneIndex, retries, edits>>
    /\ KeepModal(IF res.ok THEN SceneIndices ELSE {})

\* generateSceneDescriptions settles with reply: placeholders and the
\* narrative request, or the outer catch and finally.
DescriptionsSettleWith(r, reply) ==
    LET res == generateSceneDescriptions(reply) IN
    /\ runs[r].pc = "desc"
    /\ IF res.ok
       THEN /\ storyboardScenes' = InitialScenes(res.value)
            /\ isGeneratingNarrative' = TRUE
            /\ runs' = [runs EXCEPT ![r] = [pc |-> "narr", index |-> 0,
                                             sceneDescriptions |-> res.value]]
            /\ UNCHANGED <<error, isLoading>>
       ELSE /\ error' = res.value
            /\ isLoading' = FALSE
            /\ runs' = [runs EXCEPT ![r] = IdleRun]
            /\ UNCHANGED <<storyboardScenes, isGeneratingNarrative>>
    /\ UNCHANGED <<videoVars, exportVars, stale>>
    /\ UNCHANGED <<prompt, theme, narrative, editingSceneIndex, retries, edits>>
    /\ KeepModal(IF res.ok THEN SceneIndices ELSE {})

DescriptionsSettle(r) ==
    \E reply \in DescriptionReplies : DescriptionsSettleWith(r, reply)

NarrativeOrNull(res) ==
    IF res.ok THEN res.value ELSE Null

\* The try/catch around generateNarrative: its text, or the fallback.
NarrativeOrFallback(res) ==
    IF res.ok THEN res.value ELSE NarrativeFallback

\* generateNarrative settles with reply: the narrative or its fallback, then
\* the first iteration of the image loop.
NarrativeSettleWith(r, reply) ==
    /\ runs[r].pc = "narr"
    /\ narrative' = NarrativeOrFallback(generateNarrative(reply))
    /\ isGeneratingNarrative' = FALSE
    /\ ContinueImages(r, 1)
    /\ UNCHANGED <<videoVars, exportVars, stale>>
    /\ UNCHANGED <<prompt, theme, storyboardScenes, error, editingSceneIndex,
                   retries, edits>>
    /\ KeepModal({})

NarrativeSettle(r) ==
    \E reply \in NarrativeReplies : NarrativeSettleWith(r, reply)

\* The two functional updates of the image loop.
ImageSucceeded(imageUrl) ==
    [imageUrl |-> imageUrl, isLoadingImage |-> FALSE, imageError |-> FALSE]

ImageFailedStillLoading ==
    [imageUrl |-> Null, imageError |-> TRUE]

ImageFailed ==
    [isLoadingImage |-> FALSE, imageUrl |-> Null, imageError |-> TRUE]

\* generateSceneImage of the loop settles with reply: the update of the
\* scene at the loop's index, then the next iteration or the end.
ImageSettleWith(r, reply) ==
    LET res == generateSceneImage(reply)
        index == runs[r].index
    IN
    /\ runs[r].pc = "img"
    /\ storyboardScenes' =
          IF res.ok THEN MapScene(storyboardScenes, index, ImageSucceeded(res.value))
          ELSE MapScene(storyboardScenes, index, ImageFailed)
    /\ ContinueImages(r, index + 1)
    /\ UNCHANGED <<videoVars, exportVars, stale>>
    /\ UNCHANGED <<prompt, theme, error, narrative, isGeneratingNarrative,
                   editingSceneIndex, retries, edits>>
    /\ KeepModal({index})

ImageSettle(r) ==
    \E reply \in ImageReplies : ImageSettleWith(r, reply)

----
\* App.handleRetryImage.

RetryButtonShownWhilePending(i) ==
    /\ i <= Len(storyboardScenes)
    /\ storyboardScenes[i].imageError \/ storyboardScenes[i].isLoadingImage
    /\ storyboardScenes[i].imageUrl = Null

\* StoryboardPanel renders the Retry button of a scene.
RetryButtonShown(i) ==
    /\ i <= Len(storyboardScenes)
    /\ storyboardScenes[i].imageError
    /\ ~storyboardScenes[i].isLoadingImage
    /\ storyboardScenes[i].imageUrl = Null

\* The three functional updates of handleRetryImage.
RetryStarted ==
    [isLoadingImage |-> TRUE, imageError |-> FALSE, imageUrl |-> Null]

RetrySucceeded(imageUrl) ==
    [imageUrl |-> imageUrl, isLoadingImage |-> FALSE]

RetryFailedStillLoading ==
    [imageError |-> TRUE]

RetryFailed ==
    [isLoadingImage |-> FALSE, imageError |-> TRUE]

\* The handler called with index i, up to the await: it has no guard of
\* its own, marks the scene and issues the image request.
RetryImageInvoked(i) ==
    /\ i <= Len(storyboardScenes)
    /\ storyboardScenes' = MapScene(storyboardScenes, i, RetryStarted)
    /\ retries' = [retries EXCEPT ![i] = @ + 1]
    /\ UNCHANGED <<videoVars, exportVars, stale>>
    /\ UNCHANGED <<prompt, theme, isLoading, error, narrative,
                   isGeneratingNarrative, editingSceneIndex, runs, edits>>
    /\ KeepModal({i})

\* Invocation from the Retry button of scene i, up to the await.
handleRetryImage(i) ==
    /\ RetryButtonShown(i)
    /\ RetriesInFlight + EditsInFlight < MaxInFlight
    /\ RetryImageInvoked(i)

\* Of pending requests, staleOnes of them issued on an earlier collection,
\* one settles: an earlier one (old) or one of the present collection.
SettlesOne(pending, staleOnes, old) ==
    IF old THEN staleOnes > 0 ELSE pending > staleOnes

\* generateSceneImage of a retry of scene i settles with reply.
RetrySettleWith(i, reply) ==
    LET res == generateSceneImage(reply) IN
    /\ retries[i] > 0
    /\ storyboardScenes' =
          IF res.ok THEN MapScene(storyboardScenes, i, RetrySucceeded(res.value))
          ELSE MapScene(storyboardScenes, i, RetryFailed)
    /\ retries' = [retries EXCEPT ![i] = @ - 1]
    /\ \E old \in BOOLEAN :
          /\ SettlesOne(retries[i], stale.retries[i], old)
          /\ stale' = [stale EXCEPT !.retries[i] = IF old THEN @ - 1 ELSE @]
    /\ UNCHANGED <<videoVars, exportVars>>
    /\ UNCHANGED <<prompt, theme, isLoading, error, narrative,
                   isGeneratingNarrative, editingSceneIndex, runs, edits>>
    /\ KeepModal({i})

RetrySettle(i) ==
    \E reply \in ImageReplies : RetrySettleWith(i, reply)

----
\* App.handleStartEdit, handleCloseEditModal and the modal's input.

\* StoryboardPanel renders the Edit button of a scene.
EditButtonShown(i) ==
    /\ i <= Len(storyboardScenes)
    /\ storyboardScenes[i].imageUrl # Null
    /\ ~storyboardScenes[i].isLoadingImage

handleStartEdit(i) ==
    /\ EditButtonShown(i)
    /\ editingSceneIndex # i
    /\ editingSceneIndex' = i
    /\ UNCHANGED <<videoVars, exportVars, stale>>
    /\ UNCHANGED <<prompt, theme, storyboardScenes, isLoading, error, narrative,
                   isGeneratingNarrative, runs, retries, edits>>
    /\ KeepModal({})

\* Escape, a click outside the panel or the close button of the shown modal.
handleCloseEditModal ==
    /\ ModalShown
    /\ editingSceneIndex' = NoScene
    /\ UNCHANGED <<videoVars, exportVars, stale>>
    /\ UNCHANGED <<prompt, theme, storyboardScenes, isLoading, error, narrative,
                   isGeneratingNarrative, modalVars, runs, retries, edits>>

\* The edit-prompt input of the shown modal (disabled while isEditing).
SetEditPrompt ==
    /\ ModalShown
    /\ ~isEditing
    /\ \E p \in EditInputStrings \ {editPrompt} : editPrompt' = p
    /\ UNCHANGED <<videoVars, exportVars, stale>>
    /\ UNCHANGED <<appVars, isEditing, editError, runs, retries, edits>>

----
\* EditImageModal.handleSubmit and App.handleConfirmEdit.

\* The guard of EditImageModal.handleSubmit.
SubmitRejected == trim(editPrompt) = <<>> \/ isEditing

CannotEditOnlyAfterError(originalScene) ==
    originalScene.imageUrl = Null /\ originalScene.imageError

\* The guard of handleConfirmEdit on originalScene.
CannotEdit(originalScene) == originalScene.imageUrl = Null

\* The three functional updates of handleConfirmEdit.
EditStarted == [isLoadingImage |-> TRUE]

EditSucceeded(newImageUrl) ==
    [imageUrl |-> newImageUrl, isLoadingImage |-> FALSE, imageError |-> FALSE]

EditFailedClearsImage(originalUrl) ==
    [isLoadingImage |-> FALSE, imageUrl |-> Null]

EditFailed(originalUrl) ==
    [isLoadingImage |-> FALSE, imageUrl |-> originalUrl]

\* handleConfirmEdit throws before any update: handleSubmit catches
\* (setError, then finally setIsEditing(false)).
ConfirmEditThrows ==
    /\ editError' = NoImageMsg
    /\ isEditing' = FALSE
    /\ UNCHANGED <<videoVars, exportVars, stale>>
    /\ UNCHANGED <<appVars, editPrompt, runs, retries, edits>>

\* handleConfirmEdit marks the scene and issues the edit request.
ConfirmEditIssues(index, originalUrl) ==
    LET key == [index |-> index, originalUrl |-> originalUrl] IN
    /\ RetriesInFlight + EditsInFlight < MaxInFlight
    /\ storyboardScenes' = MapScene(storyboardScenes, index, EditStarted)
    /\ edits' = [edits EXCEPT ![key] = @ + 1]
    /\ UNCHANGED <<videoVars, exportVars, stale>>
    /\ UNCHANGED <<prompt, theme, isLoading, error, narrative,
                   isGeneratingNarrative, editingSceneIndex, runs, retries>>
    /\ SceneEffect({index}, editPrompt, TRUE, Null)

\* Submission of the shown modal's form: handleSubmit's guard, then
\* handleConfirmEdit up to its throw or its await of editSceneImage.
handleSubmit ==
    /\ ModalShown
    /\ IF SubmitRejected
       THEN UNCHANGED vars
       ELSE IF CannotEdit(storyboardScenes[editingSceneIndex])
            THEN ConfirmEditThrows
            ELSE ConfirmEditIssues(editingSceneIndex,
                                   storyboardScenes[editingSceneIndex].imageUrl)

\* editSceneImage settles with reply for the request key: handleConfirmEdit
\* commits, or restores and rethrows; handleSubmit then closes the modal
\* (onClose) or stores the message, and clears isEditing.
EditSettleWith(key, reply) ==
    LET res == editSceneImage(reply) IN
    /\ edits[key] > 0
    /\ edits' = [edits EXCEPT ![key] = @ - 1]
    /\ \E old \in BOOLEAN :
          /\ SettlesOne(edits[key], stale.edits[key], old)
          /\ stale' = [stale EXCEPT !.edits[key] = IF old THEN @ - 1 ELSE @]
    /\ UNCHANGED <<videoVars, exportVars>>
    /\ UNCHANGED <<prompt, theme, isLoading, error, narrative,
                   isGeneratingNarrative, runs, retries>>
    /\ IF res.ok
       THEN /\ storyboardScenes' = MapScene(storyboardScenes, key.index, EditSucceeded(res.value))
            /\ editingSceneIndex' = NoScene
            /\ SceneEffect({key.index}, editPrompt, FALSE, editError)
       ELSE /\ storyboardScenes' = MapScene(storyboardScenes, key.index, EditFailed(key.originalUrl))
            /\ UNCHANGED editingSceneIndex
            /\ SceneEffect({key.index}, editPrompt, FALSE, res.value)

EditSettle(key) ==
    \E reply \in EditReplies : EditSettleWith(key, reply)

----
\* VideoModal: the video service, the asset fetch and the key dialog.

CredentialMsg == "API key not found or invalid. Please select a valid API key and try again."
StartFailedMsg == "Failed to start video generation."
PollFailedMsg == "Failed to check video generation status."
NoUriMsg == "Video generation finished, but no video URI was found."
NoApiKeyMsg == "API key not available to fetch video."
FetchNotOkMsg == "Failed to fetch video from generated URI. Status: 403"
FetchRejectedMsg == "Failed to fetch"
BlobRejectedMsg == "Failed to read the response body"
SelectKeyFailedMsg == "There was an issue with API key selection."
OperationErrorMsg == "The operation failed."

IncludesApiKeyNotFoundNever(errorMessage) == FALSE

\* errorMessage.includes("API key not found"), over the messages above.
IncludesApiKeyNotFound(errorMessage) == errorMessage = CredentialMsg

\* Replies to generateVideos: the call rejects (with "Requested entity was
\* not found" in its message or without), or returns an operation.
StartReplies ==
    {[kind |-> "rejected", entityNotFound |-> b, done |-> FALSE] : b \in BOOLEAN}
    \cup {[kind |-> "operation", entityNotFound |-> FALSE, done |-> d] : d \in BOOLEAN}

\* Replies to getVideosOperation: the call rejects, or returns the operation:
\* not done, done with a video uri, done without one (with no error message
\* of its own, an empty one, or one that says something).
PollReplies ==
    {[kind |-> "rejected", entityNotFound |-> b, done |-> FALSE, uri |-> FALSE,
      errorMessage |-> Null] : b \in BOOLEAN}
    \cup {[kind |-> "operation", entityNotFound |-> FALSE, done |-> FALSE, uri |-> FALSE,
           errorMessage |-> Null]}
    \cup {[kind |-> "operation", entityNotFound |-> FALSE, done |-> TRUE, uri |-> TRUE,
           errorMessage |-> Null]}
    \cup {[kind |-> "operation", entityNotFound |-> FALSE, done |-> TRUE, uri |-> FALSE,
           errorMessage |-> m] : m \in {Null, "", OperationErrorMsg}}

\* Outcomes of fetch(downloadUrl) and of reading its blob: the fetch rejects,
\* the response is not OK, the response is OK and blob() rejects, or the
\* response is OK and its blob is read.
FetchReplies == {"ok", "notOk", "rejected", "blobRejected"}

\* The fetch returned a response with ok = true.
OkResponse(reply) == reply \in {"ok", "blobRejected"}

\* Outcomes of window.aistudio.hasSelectedApiKey() and openSelectKey().
KeyCheckReplies == {"true", "false", "rejected"}
SelectKeyReplies == {"resolved", "rejected"}

\* process.env.API_KEY as the polling callback reads it.
ApiKeys == {Null, "key"}

\* The object URL made of a fetched video.
ObjectUrl == "blob:video"

\* geminiService.startVideoGeneration for attempt a, from the reply on.
startVideoGeneration(a, reply) ==
    IF reply.kind = "operation"
    THEN [ok |-> TRUE, value |-> [name |-> a, done |-> reply.done]]
    ELSE [ok |-> FALSE,
          value |-> IF reply.entityNotFound THEN CredentialMsg ELSE StartFailedMsg]

\* geminiService.getVideosOperationStatus for the operation named a.
getVideosOperationStatus(a, reply) ==
    IF reply.kind = "operation"
    THEN [ok |-> TRUE, value |-> [name |-> a, done |-> reply.done]]
    ELSE [ok |-> FALSE,
          value |-> IF reply.entityNotFound THEN CredentialMsg ELSE PollFailedMsg]

----
\* VideoModal: state updates, timers and effects. A step works on w, the
\* modal's state m with the active timers iv, and commits the result.

VideoNow == [m |-> videoModal, iv |-> intervals]

\* clearInterval(id)
ClearInterval(iv, id) == {t \in iv : t.id # id}

\* The id window.setInterval returns: one that no active timer has and that
\* the other ref does not hold.
FreshTimer(iv, held) ==
    LET used == {t.id : t \in iv} \cup {held}
        free == {i \in TimerIds : i \notin used}
    IN  IF free = {} THEN MaxTimers + 1
        ELSE CHOOSE i \in free : \A j \in free : i <= j

MessageTimer(id) == [id |-> id, kind |-> "message", operation |-> NoOperation]

PollingTimer(id, operation) == [id |-> id, kind |-> "polling", operation |-> operation]

\* resetState(): every state back to its initial value, both timers
\* cleared and both refs null.
resetState(w) ==
    [m |-> IdleModal,
     iv |-> ClearInterval(ClearInterval(w.iv, w.m.pollingIntervalRef),
                          w.m.loadingMessageIntervalRef)]

\* if (loadingMessageIntervalRef.current) clearInterval(...); the same for
\* pollingIntervalRef.current. The refs keep their values.
ClearBothTimers(w) ==
    [w EXCEPT !.iv = ClearInterval(ClearInterval(w.iv, w.m.loadingMessageIntervalRef),
                                   w.m.pollingIntervalRef)]

ClearMessageTimer(w) ==
    [w EXCEPT !.iv = ClearInterval(w.iv, w.m.loadingMessageIntervalRef)]

FailWithKeepsStatus(w, errorMessage) ==
    [w EXCEPT !.m.error = errorMessage]

\* setError(errorMessage); setStatus('error'); and setIsKeySelected(false)
\* when the message includes "API key not found".
FailWith(w, errorMessage) ==
    [w EXCEPT !.m.error = errorMessage,
              !.m.status = "error",
              !.m.isKeySelected =
                  IF IncludesApiKeyNotFound(errorMessage) THEN FALSE ELSE @]

PollingEffectNoCleanup(w, operationSet) ==
    LET depsChanged ==
            \/ w.m.status # videoModal.status
            \/ operationSet
            \/ w.m.operation # videoModal.operation
        id == FreshTimer(w.iv, w.m.loadingMessageIntervalRef)
    IN  IF depsChanged /\ w.m.status = "generating"
            /\ w.m.operation # NoOperation /\ ~w.m.operation.done
        THEN [m |-> [w.m EXCEPT !.pollingIntervalRef = id],
              iv |-> w.iv \cup {PollingTimer(id, w.m.operation)}]
        ELSE w

\* useEffect(..., [status, operation]) after a step that left the state w:
\* when status or operation differ from the rendered ones (operationSet: the
\* step called setOperation with an object, which is never the rendered
\* one), the cleanup clears the timer in pollingIntervalRef, and a new
\* polling timer is made when generating with an operation that is not done.
PollingEffect(w, operationSet) ==
    LET depsChanged ==
            \/ w.m.status # videoModal.status
            \/ operationSet
            \/ w.m.operation # videoModal.operation
        cleaned == ClearInterval(w.iv, w.m.pollingIntervalRef)
        id == FreshTimer(cleaned, w.m.loadingMessageIntervalRef)
    IN  IF ~depsChanged THEN w
        ELSE IF w.m.status = "generating"
                /\ w.m.operation # NoOperation /\ ~w.m.operation.done
             THEN [m |-> [w.m EXCEPT !.pollingIntervalRef = id],
                   iv |-> cleaned \cup {PollingTimer(id, w.m.operation)}]
             ELSE [w EXCEPT !.iv = cleaned]

\* The step's result becomes the rendered state.
CommitVideo(w) ==
    /\ \A t \in w.iv : t.id \in TimerIds
    /\ videoModal' = w.m
    /\ intervals' = w.iv

----
\* App and VideoModal: opening, closing and the key dialog.

\* App: allImagesGenerated, the condition (with !isLoading) under which
\* ExportControls and its video button are rendered.
allImagesGenerated ==
    /\ Len(storyboardScenes) > 0
    /\ \A i \in 1..Len(storyboardScenes) : ~storyboardScenes[i].isLoadingImage

\* App.handleOpenVideoModal, then the isOpen effect of VideoModal:
\* setIsCheckingKey(true) and the hasSelectedApiKey call.
handleOpenVideoModal ==
    /\ allImagesGenerated
    /\ ~isLoading
    /\ ~isVideoModalOpen
    /\ VideoPending < MaxPending
    /\ isVideoModalOpen' = TRUE
    /\ keyChecks' = keyChecks + 1
    /\ CommitVideo([VideoNow EXCEPT !.m.isCheckingKey = TRUE])
    /\ UNCHANGED <<storyboardVars, exportVars, abandoned, objectUrls, selectKeys, resetTimeouts, starts, polls,
                   fetches, attempts>>

\* The attempts with a start call, a poll call or a fetch in flight.
InFlight ==
    {a \in AttemptIds : a \in starts \/ polls[a] > 0 \/ fetches[a] > 0}

\* App.handleCloseVideoModal (the onClose prop).
handleCloseVideoModal == isVideoModalOpen' = FALSE

\* VideoModal.handleClose from a close button: onClose(), the delayed
\* resetState, then the isOpen effect, which calls resetState() at once.
handleClose ==
    /\ isVideoModalOpen
    /\ VideoPending < MaxPending
    /\ handleCloseVideoModal
    /\ resetTimeouts' = resetTimeouts + 1
    /\ CommitVideo(PollingEffect(resetState(VideoNow), FALSE))
    /\ abandoned' = IF videoModal.status = "generating"
                    THEN abandoned \cup InFlight ELSE abandoned
    /\ UNCHANGED <<storyboardVars, exportVars, objectUrls, keyChecks, selectKeys, starts, polls,
                   fetches, attempts>>

\* A setTimeout(resetState, 300) of handleClose fires.
ResetTimeoutFires ==
    /\ resetTimeouts > 0
    /\ resetTimeouts' = resetTimeouts - 1
    /\ CommitVideo(PollingEffect(resetState(VideoNow), FALSE))
    /\ UNCHANGED <<storyboardVars, exportVars, abandoned, objectUrls, isVideoModalOpen, keyChecks, selectKeys,
                   starts, polls, fetches, attempts>>

\* hasSelectedApiKey() settles: the then-callback of the isOpen effect (a
\* rejection has no handler).
KeyCheckSettleWith(reply) ==
    /\ keyChecks > 0
    /\ keyChecks' = keyChecks - 1
    /\ IF reply = "rejected"
       THEN CommitVideo(VideoNow)
       ELSE CommitVideo([VideoNow EXCEPT !.m.isKeySelected = (reply = "true"),
                                         !.m.isCheckingKey = FALSE])
    /\ UNCHANGED <<storyboardVars, exportVars, abandoned, objectUrls, isVideoModalOpen, selectKeys, resetTimeouts,
                   starts, polls, fetches, attempts>>

KeyCheckSettle == \E reply \in KeyCheckReplies : KeyCheckSettleWith(reply)

\* The modal shows the key prompt, with its Select API Key button.
SelectKeyShown ==
    /\ isVideoModalOpen
    /\ ~videoModal.isCheckingKey
    /\ ~videoModal.isKeySelected

\* VideoModal.handleSelectKey, up to the await of openSelectKey().
handleSelectKey ==
    /\ SelectKeyShown
    /\ VideoPending < MaxPending
    /\ selectKeys' = selectKeys + 1
    /\ UNCHANGED <<storyboardVars, exportVars, abandoned, objectUrls, isVideoModalOpen, videoModal, intervals,
                   keyChecks, resetTimeouts, starts, polls, fetches, attempts>>

\* openSelectKey() settles.
SelectKeySettleWith(reply) ==
    /\ selectKeys > 0
    /\ selectKeys' = selectKeys - 1
    /\ IF reply = "resolved"
       THEN CommitVideo([VideoNow EXCEPT !.m.isKeySelected = TRUE,
                                         !.m.isCheckingKey = FALSE])
       ELSE CommitVideo(PollingEffect(
                [VideoNow EXCEPT !.m.error = SelectKeyFailedMsg,
                                 !.m.status = "error"], FALSE))
    /\ UNCHANGED <<storyboardVars, exportVars, abandoned, objectUrls, isVideoModalOpen, keyChecks, resetTimeouts,
                   starts, polls, fetches, attempts>>

SelectKeySettle == \E reply \in SelectKeyReplies : SelectKeySettleWith(reply)

\* The modal shows the content of its status (idle, generating, success or
\* error): it is open, the key check is over and a key is selected.
ContentShown ==
    /\ isVideoModalOpen
    /\ ~videoModal.isCheckingKey
    /\ videoModal.isKeySelected

\* The aspect-ratio buttons of the idle content.
SetAspectRatio ==
    /\ ContentShown
    /\ videoModal.status = "idle"
    /\ \E r \in {"16:9", "9:16"} \ {videoModal.aspectRatio} :
          CommitVideo([VideoNow EXCEPT !.m.aspectRatio = r])
    /\ UNCHANGED <<storyboardVars, exportVars, abandoned, objectUrls, isVideoModalOpen, keyChecks, selectKeys,
                   resetTimeouts, starts, polls, fetches, attempts>>

----
\* VideoModal: generation, polling and the fetch of the finished video.

\* Start Generation (idle content) and Retry (error content) are the two
\* buttons wired to handleGenerate.
GenerateButtonShown ==
    /\ ContentShown
    /\ videoModal.status \in {"idle", "error"}

PromptMissingNever == FALSE

\* !storyPrompt: the prop is App's prompt, and only the empty string is falsy.
PromptMissing == prompt = <<>>

\* VideoModal.handleGenerate up to the await of startVideoGeneration: the
\* new message timer replaces whatever loadingMessageIntervalRef held.
handleGenerateInvoked ==
    IF PromptMissing
    THEN UNCHANGED vars
    ELSE LET a == attempts + 1
             id == FreshTimer(intervals, videoModal.pollingIntervalRef)
             w == [m |-> [videoModal EXCEPT !.error = Null,
                                            !.status = "generating",
                                            !.loadingMessageIntervalRef = id],
                   iv |-> intervals \cup {MessageTimer(id)}]
         IN  /\ attempts < MaxAttempts
             /\ VideoPending < MaxPending
             /\ attempts' = a
             /\ starts' = starts \cup {a}
             /\ CommitVideo(PollingEffect(w, FALSE))
             /\ UNCHANGED <<storyboardVars, exportVars, abandoned, objectUrls, isVideoModalOpen, keyChecks,
                            selectKeys, resetTimeouts, polls, fetches>>

handleGenerate ==
    /\ GenerateButtonShown
    /\ handleGenerateInvoked

\* startVideoGeneration of attempt a settles: setOperation(op), or the catch
\* block of handleGenerate.
StartSettleWith(a, reply) ==
    LET res == startVideoGeneration(a, reply)
        w == IF res.ok
             THEN [VideoNow EXCEPT !.m.operation = res.value]
             ELSE FailWith(ClearMessageTimer(VideoNow), res.value)
    IN  /\ a \in starts
        /\ starts' = starts \ {a}
        /\ CommitVideo(PollingEffect(w, res.ok))
        /\ UNCHANGED <<storyboardVars, exportVars, abandoned, objectUrls, isVideoModalOpen, keyChecks, selectKeys,
                       resetTimeouts, polls, fetches, attempts>>

StartSettle(a) == \E reply \in StartReplies : StartSettleWith(a, reply)

\* An active polling timer fires: its callback calls
\* getVideosOperationStatus with the operation its effect captured.
PollTick(t) ==
    /\ t \in intervals
    /\ t.kind = "polling"
    /\ VideoPending < MaxPending
    /\ polls' = [polls EXCEPT ![t.operation.name] = @ + 1]
    /\ UNCHANGED <<storyboardVars, exportVars, abandoned, objectUrls, isVideoModalOpen, videoModal, intervals,
                   keyChecks, selectKeys, resetTimeouts, starts, fetches,
                   attempts>>

genErrorGenericOnly(reply) == NoUriMsg

\* updatedOp.error?.message || "Video generation finished, but no video URI
\* was found."
genError(reply) ==
    IF reply.errorMessage \notin {Null, ""} THEN reply.errorMessage
    ELSE NoUriMsg

\* The state a polling callback leaves when getVideosOperationStatus for the
\* operation named a has settled, up to its await of fetch (or to its end).
PollSettled(w, a, reply, apiKey) ==
    LET res == getVideosOperationStatus(a, reply)
        w0 == [w EXCEPT !.m.operation = res.value]
        w1 == ClearBothTimers(w0)
    IN  IF ~res.ok THEN FailWith(ClearBothTimers(w), res.value)
        ELSE IF ~res.value.done THEN w0
        ELSE IF reply.uri
             THEN IF apiKey = Null
                  THEN FailWith(ClearBothTimers(w1), NoApiKeyMsg)
                  ELSE w1
             ELSE FailWith(ClearBothTimers(w1), genError(reply))

\* The callback goes on to fetch the video.
PollFetches(reply, apiKey) ==
    /\ reply.kind = "operation"
    /\ reply.done
    /\ reply.uri
    /\ apiKey # Null

PollSettleWith(a, reply, apiKey) ==
    /\ polls[a] > 0
    /\ polls' = [polls EXCEPT ![a] = @ - 1]
    /\ fetches' = IF PollFetches(reply, apiKey)
                  THEN [fetches EXCEPT ![a] = @ + 1] ELSE fetches
    /\ CommitVideo(PollingEffect(PollSettled(VideoNow, a, reply, apiKey),
                                 reply.kind = "operation"))
    /\ UNCHANGED <<storyboardVars, exportVars, abandoned, objectUrls, isVideoModalOpen, keyChecks, selectKeys,
                   resetTimeouts, starts, attempts>>

PollSettle(a) ==
    \E reply \in PollReplies, apiKey \in ApiKeys : PollSettleWith(a, reply, apiKey)

\* The message the catch block gets when the fetch of the video fails.
FetchFailureText(reply) ==
    IF reply = "notOk" THEN FetchNotOkMsg
    ELSE IF reply = "rejected" THEN FetchRejectedMsg
    ELSE BlobRejectedMsg

FetchSucceededKeepsStatus(w) ==
    [w EXCEPT !.m.videoUrl = ObjectUrl]

\* setVideoUrl(objectUrl); setStatus('success')
FetchSucceeded(w) ==
    [w EXCEPT !.m.videoUrl = ObjectUrl,
              !.m.status = "success"]

\* The fetch of the video of operation a (and the reading of its blob)
\* settles:
\* setVideoUrl(objectUrl) and setStatus('success'), or the catch block.
FetchSettleWith(a, reply) ==
    LET w == IF reply = "ok"
             THEN FetchSucceeded(VideoNow)
             ELSE FailWith(ClearBothTimers(VideoNow), FetchFailureText(reply))
    IN  /\ fetches[a] > 0
        /\ fetches' = [fetches EXCEPT ![a] = @ - 1]
        /\ CommitVideo(PollingEffect(w, FALSE))
        /\ objectUrls' = IF reply = "ok" THEN objectUrls \cup {a} ELSE objectUrls
        /\ UNCHANGED <<storyboardVars, exportVars, abandoned, isVideoModalOpen, keyChecks, selectKeys,
                       resetTimeouts, starts, polls, attempts>>

FetchSettle(a) == \E reply \in FetchReplies : FetchSettleWith(a, reply)

----
\* sanitizeFileName (ExportControls and VideoModal), on tuples of characters.

\* String.prototype.toLowerCase over the letters of the model.
toLowerCase(s) ==
    LET lower == [A |-> "a", H |-> "h", L |-> "l"]
    IN  [i \in 1..Len(s) |->
            IF s[i] \in DOMAIN lower THEN lower[s[i]] ELSE s[i]]

\* The characters of the model that [a-z0-9_] matches.
WordChars == {"a", "e", "h", "l", "n", "o", "r", "v", "1", "2", "_"}

ReplaceEach(s) ==
    [i \in 1..Len(s) |-> IF s[i] \in WordChars THEN s[i] ELSE "_"]

\* The rest of s after the match of [^a-z0-9_]+ that begins before it.
RECURSIVE SkipMatch(_)
SkipMatch(s) ==
    IF s = <<>> \/ Head(s) \in WordChars THEN s ELSE SkipMatch(Tail(s))

\* replace(/[^a-z0-9_]+/g, '_'): left to right, each match is as long as it
\* can be and becomes one underscore.
RECURSIVE ReplaceMatches(_)
ReplaceMatches(s) ==
    IF s = <<>> THEN <<>>
    ELSE IF Head(s) \in WordChars
         THEN <<Head(s)>> \o ReplaceMatches(Tail(s))
         ELSE <<"_">> \o ReplaceMatches(SkipMatch(Tail(s)))

\* The end index both copies pass to substring.
FileNameLimit == 50

substringFromOne(s, end) == SubSeq(s, 2, IF Len(s) < end THEN Len(s) ELSE end)

\* substring(0, end)
substring(s, end) == SubSeq(s, 1, IF Len(s) < end THEN Len(s) ELSE end)

\* ExportControls.sanitizeFileName
sanitizeFileName(name) ==
    substring(ReplaceMatches(toLowerCase(name)), FileNameLimit)

\* VideoModal.sanitizeFileName
sanitizeFileNameVideo(name) ==
    substring(ReplaceMatches(toLowerCase(name)), FileNameLimit)

\* ExportControls names a download after the prompt.
ExportFileName ==
    /\ allImagesGenerated
    /\ ~isLoading
    /\ fileNames.export = {}
    /\ fileNames' = [fileNames EXCEPT !.export = {sanitizeFileName(prompt)}]
    /\ UNCHANGED <<storyboardVars, videoVars, exported>>

\* VideoModal names the download of the video after the prompt.
VideoFileName ==
    /\ fileNames.video = {}
    /\ fileNames' = [fileNames EXCEPT !.video = {sanitizeFileNameVideo(prompt)}]
    /\ UNCHANGED <<storyboardVars, videoVars, exported>>

\* App: storyboardScenes.filter(s => s.imageUrl), the scenes prop of
\* ExportControls.
HasImage(s) == s.imageUrl # Null

ScenesProp(all) == SelectSeq(all, HasImage)

\* scenes.forEach / scenes.map((scene, index) => ...): each scene that has an
\* image is written under the number index + 1 (indices count from 0 in the
\* code and from 1 here), in `${index + 1}_${title}.ext` and in the heading
\* `${index + 1}. ${title}`.
NumberedScenes(scenes) ==
    {[number |-> index, title |-> scenes[index].title,
      imageUrl |-> scenes[index].imageUrl] :
        index \in {i \in 1..Len(scenes) : HasImage(scenes[i])}}

\* ExportControls is rendered, with its menu.
ExportControlsShown == allImagesGenerated /\ ~isLoading

\* ExportControls.handleExportZip: the files put in the archive.
handleExportZip ==
    LET scenes == ScenesProp(storyboardScenes) IN
    /\ ExportControlsShown
    /\ Len(scenes) # 0
    /\ exported' = [exported EXCEPT !.zip = NumberedScenes(scenes)]
    /\ UNCHANGED <<storyboardVars, videoVars, fileNames>>

\* ExportControls.handleExportPdf: the headed blocks put in the document.
handleExportPdf ==
    LET scenes == ScenesProp(storyboardScenes) IN
    /\ ExportControlsShown
    /\ Len(scenes) # 0
    /\ exported' = [exported EXCEPT !.pdf = NumberedScenes(scenes)]
    /\ UNCHANGED <<storyboardVars, videoVars, fileNames>>

----
Next ==
    \/ SetPrompt
    \/ SetTheme
    \/ handleGenerateStoryboard
    \/ \E r \in RunIds : DescriptionsSettle(r)
    \/ \E r \in RunIds : NarrativeSettle(r)
    \/ \E r \in RunIds : ImageSettle(r)
    \/ \E i \in SceneIndices : handleRetryImage(i)
    \/ \E i \in SceneIndices : RetrySettle(i)
    \/ \E i \in SceneIndices : handleStartEdit(i)
    \/ handleCloseEditModal
    \/ SetEditPrompt
    \/ handleSubmit
    \/ \E key \in EditKeys : EditSettle(key)

Spec == Init /\ [][Next]_vars

\* Every pending Generation Client call settles, with a result or a failure.
\* What the user does is under no obligation.
StoryboardFairness ==
    /\ \A r \in RunIds :
          /\ WF_vars(DescriptionsSettle(r))
          /\ WF_vars(NarrativeSettle(r))
          /\ WF_vars(ImageSettle(r))
    /\ \A i \in SceneIndices : WF_vars(RetrySettle(i))
    /\ \A key \in EditKeys : WF_vars(EditSettle(key))

SpecFair == Init /\ [][Next]_vars /\ StoryboardFairness

\* The prompt input as it stands when the video modal is opened: the prompt
\* of the storyboard, or emptied after the storyboard was generated.
VideoPrompts == {<<>>, <<"a">>}

\* The state after a run of handleGenerateStoryboard has ended with the
\* collection scenes, so that ExportControls and its video button are
\* offered; p is the prompt.
FinishedWith(p, scenes) ==
    /\ prompt = p
    /\ theme = <<"a">>
    /\ storyboardScenes = scenes
    /\ isLoading = FALSE
    /\ error = Null
    /\ narrative = "story"
    /\ isGeneratingNarrative = FALSE
    /\ editingSceneIndex = NoScene
    /\ editPrompt = <<>>
    /\ isEditing = FALSE
    /\ editError = Null
    /\ runs = [r \in RunIds |-> IdleRun]
    /\ retries = [i \in SceneIndices |-> 0]
    /\ edits = [k \in EditKeys |-> 0]
    /\ stale = NoneStale
    /\ VideoInit
    /\ ExportInit

\* A finished storyboard of one scene whose image is in place.
FinishedStoryboard(p) ==
    FinishedWith(p, MapScene(InitialScenes(<<SceneDescription(1)>>), 1,
                             ImageSucceeded("imgA")))

InitVideo == \E p \in VideoPrompts : FinishedStoryboard(p)

NextVideo ==
    \/ handleOpenVideoModal
    \/ handleClose
    \/ ResetTimeoutFires
    \/ KeyCheckSettle
    \/ handleSelectKey
    \/ SelectKeySettle
    \/ SetAspectRatio
    \/ handleGenerate
    \/ \E a \in AttemptIds : StartSettle(a)
    \/ \E t \in intervals : PollTick(t)
    \/ \E a \in AttemptIds : PollSettle(a)
    \/ \E a \in AttemptIds : FetchSettle(a)

SpecVideo == InitVideo /\ [][NextVideo]_vars

\* A poll request is answered with an operation that is done.
PollReportsDone ==
    \E a \in AttemptIds, reply \in PollReplies, apiKey \in ApiKeys :
        /\ reply.kind = "operation"
        /\ reply.done
        /\ PollSettleWith(a, reply, apiKey)

\* What the browser and the service guarantee: a registered timer fires, a
\* pending promise settles, and polls of an operation are answered with
\* "done" at some time. What the user does is under no obligation.
VideoFairness ==
    /\ WF_vars(ResetTimeoutFires)
    /\ WF_vars(KeyCheckSettle)
    /\ WF_vars(SelectKeySettle)
    /\ WF_vars(\E t \in intervals : PollTick(t))
    /\ \A a \in AttemptIds :
          /\ WF_vars(StartSettle(a))
          /\ WF_vars(PollSettle(a))
          /\ WF_vars(FetchSettle(a))
    /\ SF_vars(PollReportsDone)

SpecVideoFair == InitVideo /\ [][NextVideo]_vars /\ VideoFairness

\* Prompts for sanitizeFileName: every string of up to MaxNameLen characters
\* over NameChars; strings around FileNameLimit characters long, made of one
\* character repeated and a short tail; and the example of the documentation.
NameChars == {"A", "a", "1", "_", " ", "!"}

NamesUpTo(n) == UNION {[1..k -> NameChars] : k \in 0..n}

LongNames ==
    {[i \in 1..n |-> c] \o t :
        c \in {"a", "A", " "},
        n \in (FileNameLimit - 2)..(FileNameLimit + 1),
        t \in NamesUpTo(MaxNameLen - 1)}

ExampleName ==
    <<"A", " ", "L", "o", "n", "e", " ", "H", "e", "r", "o", "!", " ", "(",
      "v", "2", ")">>

FileNameInputs == NamesUpTo(MaxNameLen) \cup LongNames \cup {ExampleName}

InitSanitize == \E p \in FileNameInputs : FinishedStoryboard(p)

NextSanitize ==
    \/ ExportFileName
    \/ VideoFileName

SpecSanitize == InitSanitize /\ [][NextSanitize]_vars

\* The collection a run leaves when the image of scene k succeeded with
\* outcome[k], or failed where outcome[k] is Null.
FinishedScenes(outcome) ==
    [k \in DOMAIN outcome |->
        Spread(InitialScenes([i \in DOMAIN outcome |-> SceneDescription(i)])[k],
               IF outcome[k] = Null THEN ImageFailed
               ELSE ImageSucceeded(outcome[k]))]

\* Every storyboard of up to MaxScenes scenes as a run can leave it.
InitExport ==
    \E n \in 1..MaxScenes :
        \E outcome \in [1..n -> GeneratedImages \cup {Null}] :
            FinishedWith(<<"a">>, FinishedScenes(outcome))

\* The finished storyboard with its retry and edit buttons and its export
\* menu.
NextExport ==
    \/ \E i \in SceneIndices : handleRetryImage(i)
    \/ \E i \in SceneIndices : RetrySettle(i)
    \/ \E i \in SceneIndices : handleStartEdit(i)
    \/ handleCloseEditModal
    \/ SetEditPrompt
    \/ handleSubmit
    \/ \E key \in EditKeys : EditSettle(key)
    \/ handleExportZip
    \/ handleExportPdf

SpecExport == InitExport /\ [][NextExport]_vars

----
\* Properties of the generation pipeline and of the retry and edit handlers.

IsResolved(s) ==
    ~s.isLoadingImage /\ (s.imageUrl # Null \/ s.imageError)

IsPlaceholderOf(s, desc) ==
    /\ s.title = desc.title
    /\ s.description = desc.description
    /\ s.imageUrl = Null
    /\ s.isLoadingImage
    /\ ~s.imageError

InFlightOn(i) ==
    retries[i] > 0 \/ \E key \in EditKeys : key.index = i /\ edits[key] > 0

\* C1: at most one pipeline is in flight; isLoading is true exactly while a
\* run is between its first request and the commit of its last image
\* result; an invocation of handleGenerateStoryboard while isLoading is true
\* changes nothing and starts no run.
C1_SinglePipeline ==
    /\ [](Cardinality(ActiveRuns) <= 1 /\ (isLoading <=> ActiveRuns # {}))
    /\ [][(isLoading /\ handleGenerateStoryboard) => UNCHANGED vars]_vars

C1_Witness ==
    /\ isLoading
    /\ trim(prompt) # <<>>
    /\ trim(theme) # <<>>
    /\ \E r \in RunIds : runs[r].pc = "img" /\ runs[r].index = 2

\* C2: a run issues its image requests in panel order, one at a time: the
\* first request is for scene 1, and the request for scene i+1 is issued
\* only by the step that commits the result of scene i.
C2_SequentialImages ==
    [][\A r \in RunIds :
          /\ (runs[r].pc # "img" /\ runs'[r].pc = "img") =>
                (runs[r].pc = "narr" /\ runs'[r].index = 1)
          /\ (runs[r].pc = "img" /\ runs'[r].pc = "img"
                /\ runs'[r].index # runs[r].index) =>
                (/\ runs'[r].index = runs[r].index + 1
                 /\ runs[r].index <= Len(storyboardScenes')
                 /\ IsResolved(storyboardScenes'[runs[r].index]))]_vars

C2_Witness ==
    \E r \in RunIds :
        /\ runs[r].pc = "img"
        /\ runs[r].index = 2
        /\ storyboardScenes[1].imageUrl # Null
        /\ storyboardScenes[2].isLoadingImage

\* C3: when the description request settles with N >= 1 descriptions, the
\* Scene Collection becomes exactly N placeholders in the returned order,
\* and no narrative or image request of a run was issued before that step.
C3_Placeholders ==
    [][\A r \in RunIds : \A reply \in DescriptionReplies :
          (reply.kind = "array" /\ reply.scenes # <<>>
              /\ DescriptionsSettleWith(r, reply)) =>
          (/\ Len(storyboardScenes') = Len(reply.scenes)
           /\ \A i \in 1..Len(reply.scenes) :
                 IsPlaceholderOf(storyboardScenes'[i], reply.scenes[i])
           /\ \A q \in RunIds : runs[q].pc \notin {"narr", "img"}
           /\ runs'[r].pc = "narr")]_vars

C3_Witness ==
    /\ \E r \in RunIds : runs[r].pc = "narr"
    /\ Len(storyboardScenes) = 2
    /\ \A i \in 1..2 : IsPlaceholderOf(storyboardScenes[i], SceneDescription(i))

\* C4: when the image request of a run for scene i fails, scene i ends with
\* imageError, not loading and no image, the global error stays null, and
\* the run goes on to request scene i+1 when there is one.
C4_ImageFailureContinues ==
    [][\A r \in RunIds : \A reply \in ImageReplies :
          (~(reply.kind = "inlineData" /\ reply.mimeIsImage)
              /\ ImageSettleWith(r, reply)) =>
          LET i == runs[r].index IN
          /\ i <= Len(storyboardScenes')
          /\ storyboardScenes'[i].imageError
          /\ ~storyboardScenes'[i].isLoadingImage
          /\ storyboardScenes'[i].imageUrl = Null
          /\ error' = Null
          /\ i < Len(runs[r].sceneDescriptions) =>
                (runs'[r].pc = "img" /\ runs'[r].index = i + 1 /\ isLoading')]_vars

C4_Witness ==
    \E r \in RunIds :
        /\ runs[r].pc = "img"
        /\ runs[r].index = 2
        /\ storyboardScenes[1].imageError
        /\ ~storyboardScenes[1].isLoadingImage
        /\ storyboardScenes[1].imageUrl = Null
        /\ error = Null

\* C5 as stated: when a run that got its descriptions completes, every record
\* is resolved (not loading, and holding an image or imageError).
C5_AllResolvedAtCompletion ==
    [][\A r \in RunIds :
          (runs[r].pc = "img" /\ runs'[r].pc = "idle") =>
          \A i \in 1..Len(storyboardScenes') : IsResolved(storyboardScenes'[i])]_vars

\* C5 as amended: when a run that got its descriptions completes, every record
\* for whose index no retry or edit request is in flight is resolved.
C5_ResolvedUnlessInFlight ==
    [][\A r \in RunIds :
          (runs[r].pc = "img" /\ runs'[r].pc = "idle") =>
          (/\ ~isLoading'
           /\ \A i \in 1..Len(storyboardScenes') :
                 InFlightOn(i)' \/ IsResolved(storyboardScenes'[i]))]_vars

C5_Witness ==
    /\ ~isLoading
    /\ narrative # Null
    /\ Len(storyboardScenes) = 2
    /\ storyboardScenes[1].isLoadingImage
    /\ retries[1] = 1
    /\ IsResolved(storyboardScenes[2])

\* C6: when the narrative request fails, the Scene Collection is unchanged,
\* narrative is the fallback string, the global error stays null,
\* isGeneratingNarrative is false and the run issues the first image request.
C6_NarrativeFallback ==
    [][\A r \in RunIds : \A reply \in NarrativeReplies :
          (reply.kind = "rejected" /\ NarrativeSettleWith(r, reply)) =>
          (/\ storyboardScenes' = storyboardScenes
           /\ narrative' = NarrativeFallback
           /\ error' = Null
           /\ ~isGeneratingNarrative'
           /\ isLoading'
           /\ runs'[r].pc = "img"
           /\ runs'[r].index = 1)]_vars

C6_Witness ==
    /\ narrative = NarrativeFallback
    /\ error = Null
    /\ ~isGeneratingNarrative
    /\ \E r \in RunIds : runs[r].pc = "img" /\ runs[r].index = 1

\* C7: when the description request fails (a rejection, text that does not
\* parse, a non-array or an empty array), the run ends at once: no
\* placeholders, error set, no narrative or image request, isLoading false.
C7_DescriptionsFailFast ==
    [][\A r \in RunIds : \A reply \in DescriptionReplies :
          ((reply.kind # "array" \/ reply.scenes = <<>>)
              /\ DescriptionsSettleWith(r, reply)) =>
          (/\ storyboardScenes' = <<>>
           /\ error' # Null
           /\ ~isLoading'
           /\ ~isGeneratingNarrative'
           /\ narrative' = Null
           /\ \A q \in RunIds : runs'[q].pc = "idle")]_vars

C7_Witness ==
    /\ error = DescriptionsFailedMsg
    /\ ~isLoading
    /\ storyboardScenes = <<>>
    /\ narrative = Null
    /\ ActiveRuns = {}

\* C8: when the image request of a retry of scene i succeeds, the record at
\* i afterwards has imageError false, an image, and is not loading.
C8_RetrySuccess ==
    [][\A i \in SceneIndices : \A reply \in ImageReplies :
          (reply.kind = "inlineData" /\ reply.mimeIsImage
              /\ RetrySettleWith(i, reply) /\ i <= Len(storyboardScenes')) =>
          (/\ ~storyboardScenes'[i].imageError
           /\ storyboardScenes'[i].imageUrl # Null
           /\ ~storyboardScenes'[i].isLoadingImage)]_vars

\* A retry has succeeded and left its record with an image and imageError.
C8_Witness ==
    /\ RetriesInFlight = 0
    /\ \E i \in 1..Len(storyboardScenes) :
          /\ storyboardScenes[i].imageUrl \in GeneratedImages
          /\ storyboardScenes[i].imageError
          /\ ~storyboardScenes[i].isLoadingImage

\* C9: when the edit request fails, the record at the edited index holds
\* the image it held when the edit was invoked and is not loading, and the
\* caller got the error: the modal is not closed by that step and stores the
\* message (unless the modal's effect on its scene prop resets it).
C9_EditFailureRestores ==
    [][\A key \in EditKeys : \A reply \in EditReplies :
          (~(reply.kind = "inlineData" /\ reply.mimeIsImage)
              /\ EditSettleWith(key, reply)) =>
          (/\ key.originalUrl # Null
           /\ key.index <= Len(storyboardScenes') =>
                 (/\ storyboardScenes'[key.index].imageUrl = key.originalUrl
                  /\ ~storyboardScenes'[key.index].isLoadingImage)
           /\ editingSceneIndex' = editingSceneIndex
           /\ ~isEditing'
           /\ \/ editError' = EditFailedMsg
              \/ editError' = Null /\ editingSceneIndex' = key.index)]_vars

C9_Witness ==
    /\ editError = EditFailedMsg
    /\ EditsInFlight = 0
    /\ \E i \in 1..Len(storyboardScenes) :
          storyboardScenes[i].imageUrl # Null /\ ~storyboardScenes[i].isLoadingImage

\* C10: a submitted edit of a scene that holds no image fails with the
\* invalid-state message, issues no edit request and leaves the Scene
\* Collection and the rest of the App state unchanged.
C10_EditWithoutImage ==
    [][(ModalShown /\ ~SubmitRejected
          /\ storyboardScenes[editingSceneIndex].imageUrl = Null
          /\ handleSubmit) =>
       (/\ editError' = NoImageMsg
        /\ ~isEditing'
        /\ edits' = edits
        /\ UNCHANGED appVars)]_vars

C10_Witness ==
    /\ ModalShown
    /\ storyboardScenes[editingSceneIndex].imageUrl = Null
    /\ editError = NoImageMsg
    /\ EditsInFlight = 0

\* C11 as stated: in every state where scene i is pending, handleRetryImage
\* called with i is a no-op (it could change nothing and issue no request).
C11_RetryNoOpWhenPending ==
    \A i \in SceneIndices :
        (i <= Len(storyboardScenes) /\ storyboardScenes[i].isLoadingImage) =>
            ~ENABLED <<RetryImageInvoked(i)>>_vars

\* C11 as amended: no retry request is issued for a pending scene, because
\* every step that issues one starts from a scene that shows the Retry
\* button: failed, not loading and without an image.
C11_NoRetryWhilePending ==
    [][\A i \in SceneIndices :
          retries'[i] > retries[i] =>
              (/\ i <= Len(storyboardScenes)
               /\ ~storyboardScenes[i].isLoadingImage
               /\ storyboardScenes[i].imageError
               /\ storyboardScenes[i].imageUrl = Null)]_vars

C11_Witness ==
    \E i \in 1..Len(storyboardScenes) :
        /\ retries[i] = 1
        /\ storyboardScenes[i].isLoadingImage
        /\ ~RetryButtonShown(i)

\* C12: in every state, every record satisfies at most one of: it is
\* loading, it holds an image, it has imageError.
C12_OneCondition ==
    \A i \in 1..Len(storyboardScenes) :
        LET s == storyboardScenes[i] IN
        /\ ~(s.isLoadingImage /\ s.imageUrl # Null)
        /\ ~(s.isLoadingImage /\ s.imageError)
        /\ ~(s.imageUrl # Null /\ s.imageError)

\* An edit request is in flight on a record that is loading and still holds
\* its image.
C12_Witness ==
    \E key \in EditKeys :
        /\ edits[key] = 1
        /\ key.index <= Len(storyboardScenes)
        /\ storyboardScenes[key.index].isLoadingImage
        /\ storyboardScenes[key.index].imageUrl = key.originalUrl
        /\ key.originalUrl # Null

\* C13: a record that stays in the collection loses its image only in a
\* step of handleRetryImage on that scene.
C13_OnlyRetryClearsImage ==
    [][\A i \in SceneIndices :
          (/\ i <= Len(storyboardScenes)
           /\ i <= Len(storyboardScenes')
           /\ storyboardScenes[i].imageUrl # Null
           /\ storyboardScenes'[i].imageUrl = Null) =>
              retries'[i] > retries[i]]_vars

----
\* Properties of the video modal.

\* The state of the modal that a generation session shows.
SessionState ==
    <<videoModal.status, videoModal.operation, videoModal.videoUrl,
      videoModal.error, videoModal.isKeySelected>>

\* A start call, a poll call or a fetch of attempt a settles.
CallSettles(a) == StartSettle(a) \/ PollSettle(a) \/ FetchSettle(a)

\* C14: once the modal was closed while status was generating, the
\* resolution of a start call, poll call or fetch that was in flight at that
\* close changes none of status, operation, videoUrl, error, isKeySelected.
C14_AbandonedCallsChangeNothing ==
    [][\A a \in abandoned :
          CallSettles(a) => SessionState' = SessionState]_vars

\* A call in flight at a close during generation is still in flight.
C14_Witness ==
    \E a \in abandoned : a \in InFlight

\* The values a session starts from.
SessionInitial ==
    /\ videoModal.status = "idle"
    /\ videoModal.operation = NoOperation
    /\ videoModal.videoUrl = Null
    /\ videoModal.error = Null

\* C15: whenever the modal goes from closed to open, status is idle and
\* operation, videoUrl and error are null.
C15_OpensInitial ==
    [][(~isVideoModalOpen /\ isVideoModalOpen') => SessionInitial']_vars

\* The modal has been closed and opened again.
C15_Witness ==
    /\ isVideoModalOpen
    /\ resetTimeouts > 0

\* The session is over: status is not generating, or the modal is closed.
NotGenerating ==
    videoModal.status # "generating" \/ ~isVideoModalOpen

PollingActive == \E t \in intervals : t.kind = "polling"

\* C16: in every state where status is not generating or the modal is
\* closed, no polling timer is active, and no step from such a state issues
\* a poll request.
C16_PollingStops ==
    /\ [](NotGenerating => ~PollingActive)
    /\ [][NotGenerating => \A a \in AttemptIds : polls'[a] <= polls[a]]_vars

\* Polling has been active and has ended with a terminal status: the ref
\* still holds the id of the cleared timer.
C16_Witness ==
    /\ videoModal.status \in {"success", "error"}
    /\ videoModal.pollingIntervalRef # NoTimer

MessageTimers == {t \in intervals : t.kind = "message"}

\* C17: a loading-message timer is active only while status is generating,
\* and every active message timer is the one loadingMessageIntervalRef
\* holds, so that it can still be cancelled.
C17_MessageTimerOnlyWhileGenerating ==
    \A t \in MessageTimers :
        /\ videoModal.status = "generating"
        /\ t.id = videoModal.loadingMessageIntervalRef

\* A message timer has been started and status has left generating.
C17_Witness ==
    /\ videoModal.loadingMessageIntervalRef # NoTimer
    /\ videoModal.status # "generating"

Terminal == videoModal.status \in {"success", "error"}

\* C18: once status is success or error it changes only when the modal is
\* closed (handleClose and its delayed resetState) or, from error, when the
\* user retries through handleGenerate; in particular no poll or fetch
\* result changes it.
C18_TerminalStates ==
    [][(Terminal /\ videoModal'.status # videoModal.status) =>
          \/ handleClose
          \/ ResetTimeoutFires
          \/ videoModal.status = "error" /\ handleGenerate]_vars

\* A poll call or a fetch is in flight in a terminal state.
C18_Witness ==
    /\ Terminal
    /\ \E a \in AttemptIds : polls[a] > 0 \/ fetches[a] > 0

\* The reply of a poll that reports the operation done with a video URI.
DoneWithUri ==
    [kind |-> "operation", entityNotFound |-> FALSE, done |-> TRUE,
     uri |-> TRUE, errorMessage |-> Null]

\* C19 as stated: a poll that reports done with a video URI goes on to fetch
\* the video, and when the fetch returns an OK response status becomes
\* success and videoUrl is non-null.
C19_OkResponseSucceeds ==
    [][\A a \in AttemptIds : \A reply \in FetchReplies :
          /\ PollSettleWith(a, DoneWithUri, "key") =>
                fetches'[a] = fetches[a] + 1
          /\ (OkResponse(reply) /\ FetchSettleWith(a, reply)) =>
                /\ videoModal'.status = "success"
                /\ videoModal'.videoUrl # Null]_vars

\* C19 amended: a poll that reports done with a video URI goes on to fetch
\* the video (the API key being available), and when the fetch returns an
\* OK response whose body is read into a blob, status becomes success and
\* videoUrl holds the object URL.
C19_DoneWithUriSucceeds ==
    [][\A a \in AttemptIds :
          /\ PollSettleWith(a, DoneWithUri, "key") =>
                fetches'[a] = fetches[a] + 1
          /\ FetchSettleWith(a, "ok") =>
                /\ videoModal'.status = "success"
                /\ videoModal'.videoUrl # Null]_vars

\* The video has been fetched.
C19_Witness ==
    /\ videoModal.status = "success"
    /\ videoModal.videoUrl = ObjectUrl

\* The replies of a poll that reports the operation done without video URI.
DoneWithoutUri ==
    {reply \in PollReplies :
        reply.kind = "operation" /\ reply.done /\ ~reply.uri}

\* C20: a poll that reports done without a video URI sets status error and
\* a non-empty error: the operation's own error message when it has one,
\* otherwise the generic message that no video URI was found.
C20_DoneWithoutUriFails ==
    [][\A a \in AttemptIds, apiKey \in ApiKeys : \A reply \in DoneWithoutUri :
          PollSettleWith(a, reply, apiKey) =>
              /\ videoModal'.status = "error"
              /\ videoModal'.error \notin {Null, ""}
              /\ videoModal'.error =
                    IF reply.errorMessage \in {Null, ""}
                    THEN "Video generation finished, but no video URI was found."
                    ELSE reply.errorMessage]_vars

\* An operation finished without video and its own message is shown.
C20_Witness ==
    /\ videoModal.status = "error"
    /\ videoModal.error = OperationErrorMsg

\* C21: when the fetch of a finished video returns a response that is not
\* OK, or throws, status becomes error (not success), error holds the text
\* of the failure and videoUrl is left as it was: null stays null.
C21_FetchFailureFails ==
    [][\A a \in AttemptIds : \A reply \in FetchReplies \ {"ok"} :
          FetchSettleWith(a, reply) =>
              /\ videoModal'.status = "error"
              /\ videoModal'.error = FetchFailureText(reply)
              /\ videoModal'.videoUrl = videoModal.videoUrl]_vars

\* A fetch has failed and no video is held.
C21_Witness ==
    /\ videoModal.status = "error"
    /\ videoModal.error \in {FetchNotOkMsg, FetchRejectedMsg}
    /\ videoModal.videoUrl = Null

\* What C22 asks of a step in which a start or poll call was rejected.
CredentialHandled(reply) ==
    /\ videoModal'.status = "error"
    /\ IF reply.entityNotFound
       THEN /\ videoModal'.error =
                  "API key not found or invalid. Please select a valid API key and try again."
            /\ videoModal'.isKeySelected = FALSE
       ELSE videoModal'.isKeySelected = videoModal.isKeySelected

\* C22: when a start call or a poll call is rejected with 'Requested entity
\* was not found', the error text contains 'API key not found' and
\* isKeySelected becomes false together with status error; any other
\* rejected start or poll call sets status error and leaves isKeySelected
\* unchanged.
C22_CredentialRejected ==
    [][\A a \in AttemptIds :
          /\ \A reply \in {r \in StartReplies : r.kind = "rejected"} :
                StartSettleWith(a, reply) => CredentialHandled(reply)
          /\ \A reply \in {r \in PollReplies : r.kind = "rejected"} :
                \A apiKey \in ApiKeys :
                    PollSettleWith(a, reply, apiKey) => CredentialHandled(reply)]_vars

\* The credential was rejected while a key was selected: the modal is open
\* on the key prompt with the error kept.
C22_Witness ==
    /\ videoModal.status = "error"
    /\ videoModal.error = CredentialMsg
    /\ ~videoModal.isKeySelected
    /\ ~videoModal.isCheckingKey

\* C23: when the modal is closed, every object URL created for a fetched
\* video has been revoked: the close leaves no created and unrevoked URL.
C23_HandlesReleasedAtClose ==
    [][handleClose => objectUrls' = {}]_vars

\* The modal was closed after a video had been fetched and shown.
C23_Witness ==
    /\ ~isVideoModalOpen
    /\ objectUrls # {}
    /\ videoModal.videoUrl = Null

\* C24: handleGenerate of the video modal with an empty storyPrompt issues no
\* start request, creates no timer and leaves status, operation and error
\* (with the rest of the modal's state) unchanged.
C24_EmptyPromptRejected ==
    [][(prompt = <<>> /\ handleGenerate) =>
          /\ starts' = starts
          /\ attempts' = attempts
          /\ intervals' = intervals
          /\ videoModal' = videoModal]_vars

\* The Start Generation button is shown while storyPrompt is empty.
C24_Witness ==
    /\ prompt = <<>>
    /\ GenerateButtonShown

\* C25: handleGenerateStoryboard with a prompt or a theme that is empty after
\* trimming issues no request (no run starts) and leaves the scenes, the
\* narrative, error and isLoading untouched.
C25_BlankInputRejected ==
    [][((trim(prompt) = <<>> \/ trim(theme) = <<>>)
            /\ handleGenerateStoryboard) =>
          /\ runs' = runs
          /\ storyboardScenes' = storyboardScenes
          /\ narrative' = narrative
          /\ error' = error
          /\ isLoading' = isLoading]_vars

\* A storyboard is shown, no run is going on, and the prompt or the theme
\* holds whitespace only.
C25_Witness ==
    /\ trim(prompt) = <<>> \/ trim(theme) = <<>>
    /\ ~isLoading
    /\ Len(storyboardScenes) > 0

\* The lowercased name with every maximal run of characters outside
\* [a-z0-9_] replaced by one underscore: the characters at the indices that
\* are inside the class or begin a run, a run's first character read as an
\* underscore; then the first 50 of them.
RunsCollapsed(name) ==
    LET low == toLowerCase(name)
        kept == {i \in 1..Len(low) :
                    \/ low[i] \in WordChars
                    \/ i = 1
                    \/ low[i - 1] \in WordChars}
        at(k) == CHOOSE i \in kept : Cardinality({j \in kept : j <= i}) = k
        n == IF Cardinality(kept) < 50 THEN Cardinality(kept) ELSE 50
    IN  [k \in 1..n |-> IF low[at(k)] \in WordChars THEN low[at(k)] ELSE "_"]

\* C26: sanitizeFileName returns the lowercased input with every maximal run
\* of characters outside [a-z0-9_] replaced by exactly one underscore, cut
\* to its first 50 characters; 'A Lone Hero! (v2)' gives 'a_lone_hero_v2_';
\* the copies of ExportControls and VideoModal give the same result.
C26_SanitizeFileName ==
    /\ \A f \in fileNames.export \cup fileNames.video :
          /\ f = RunsCollapsed(prompt)
          /\ prompt = ExampleName =>
                f = <<"a", "_", "l", "o", "n", "e", "_", "h", "e", "r", "o",
                      "_", "v", "2", "_">>
    /\ \A f \in fileNames.export : \A g \in fileNames.video : f = g

\* Both copies have named a file after a prompt that is longer than 50
\* characters and has a run of two characters outside the class.
C26_Witness ==
    /\ fileNames.export # {}
    /\ fileNames.video # {}
    /\ Len(prompt) > 50
    /\ \E i \in 1..(Len(prompt) - 1) :
          prompt[i] \in {" ", "!"} /\ prompt[i + 1] \in {" ", "!"}

\* The step leaves the collection's length, every title and description and
\* every record other than record i as they were.
OnlyImageOf(i) ==
    /\ Len(storyboardScenes') = Len(storyboardScenes)
    /\ \A j \in 1..Len(storyboardScenes) :
          /\ storyboardScenes'[j].title = storyboardScenes[j].title
          /\ storyboardScenes'[j].description = storyboardScenes[j].description
          /\ j # i => storyboardScenes'[j] = storyboardScenes[j]

\* C27: the commit of an image-generation, retry or edit result for index i
\* changes only imageUrl, isLoadingImage and imageError of record i; length,
\* order, titles, descriptions and all other records stay, whatever else is
\* in flight.
C27_CommitFrame ==
    [][/\ \A r \in RunIds : ImageSettle(r) => OnlyImageOf(runs[r].index)
       /\ \A i \in SceneIndices : RetrySettle(i) => OnlyImageOf(i)
       /\ \A key \in EditKeys : EditSettle(key) => OnlyImageOf(key.index)]_vars

\* The pipeline awaits the image of scene 2 while a retry of scene 1 is in
\* flight.
C27_Witness ==
    /\ retries[1] > 0
    /\ \E r \in RunIds : runs[r].pc = "img" /\ runs[r].index = 2
    /\ Len(storyboardScenes) = 2

\* C28 as stated: narrative and image generation are unordered, so while the
\* narrative request of a run is pending the result of an image request of
\* that run can be committed.
C28_Unordered ==
    \A r \in RunIds : runs[r].pc = "narr" => ENABLED ImageSettle(r)

\* C28: narrative generation precedes image generation: every result of the
\* image loop is committed with no narrative request pending and with the
\* narrative (text or fallback) already set.
C28_NarrativeBeforeImages ==
    [][\A r \in RunIds : ImageSettle(r) =>
          /\ ~isGeneratingNarrative
          /\ narrative # Null
          /\ \A q \in RunIds : runs[q].pc # "narr"]_vars

\* The narrative has resolved, the first image result is committed and the
\* second image request is pending.
C28_Witness ==
    /\ narrative # Null
    /\ ~isGeneratingNarrative
    /\ \E r \in RunIds : runs[r].pc = "img" /\ runs[r].index = 2
    /\ storyboardScenes[1].imageUrl \in GeneratedImages

\* The start requests, poll requests and asset fetches of the modal that are
\* in flight.
CallsInFlight ==
    Cardinality(starts) + Total(polls, AttemptIds) + Total(fetches, AttemptIds)

\* C29: at any time at most one start request, poll request or asset fetch
\* of the modal is in flight, and the completion of an operation is fetched
\* at most once.
C29_SingleCallInFlight ==
    /\ CallsInFlight <= 1
    /\ \A a \in AttemptIds : fetches[a] + (IF a \in objectUrls THEN 1 ELSE 0) <= 1

\* A poll request is in flight while the modal is generating.
C29_Witness ==
    /\ isVideoModalOpen
    /\ videoModal.status = "generating"
    /\ \E a \in AttemptIds : polls[a] > 0

\* The start call of the latest attempt has succeeded: the modal is open and
\* generating and that call is no longer pending.
StartSucceeded ==
    /\ isVideoModalOpen
    /\ videoModal.status = "generating"
    /\ attempts > 0
    /\ attempts \notin starts

\* C30: once a start call has succeeded, whatever handle it returned, status
\* eventually leaves generating for success or error, unless the modal is
\* closed; timers fire, calls settle and polls are at some time answered
\* with "done".
C30_GeneratingEnds ==
    StartSucceeded ~>
        (videoModal.status \in {"success", "error"} \/ ~isVideoModalOpen)

\* The start call returned an operation that is already done: the modal is
\* generating with no call in flight and no polling timer.
C30_Witness ==
    /\ StartSucceeded
    /\ videoModal.operation.name = attempts
    /\ videoModal.operation.done
    /\ InFlight = {}
    /\ \A t \in intervals : t.kind # "polling"

\* C31: when every Generation Client call settles, every run of
\* handleGenerateStoryboard ends, with isLoading and isGeneratingNarrative
\* false, whatever fails on the way.
C31_RunTerminates ==
    \A r \in RunIds :
        (runs[r].pc # "idle") ~>
            (runs[r].pc = "idle" /\ ~isLoading /\ ~isGeneratingNarrative)

\* A run has ended after the narrative call and an image call failed.
C31_Witness ==
    /\ ActiveRuns = {}
    /\ ~isLoading
    /\ ~isGeneratingNarrative
    /\ narrative = NarrativeFallback
    /\ Len(storyboardScenes) = 2
    /\ storyboardScenes[1].imageError
    /\ storyboardScenes[2].imageUrl \in GeneratedImages

\* A retry of scene i issued on an earlier collection settles.
StaleRetrySettles(i) ==
    RetrySettle(i) /\ stale'.retries[i] < stale.retries[i]

\* An edit request issued on an earlier collection settles.
StaleEditSettles(key) ==
    EditSettle(key) /\ stale'.edits[key] < stale.edits[key]

\* C32: the result of a retry or edit that was requested before a new run
\* replaced the collection, success or failure, changes no record of the
\* new collection.
C32_StaleResultsDropped ==
    [][/\ \A i \in SceneIndices :
             StaleRetrySettles(i) => storyboardScenes' = storyboardScenes
       /\ \A key \in EditKeys :
             StaleEditSettles(key) => storyboardScenes' = storyboardScenes]_vars

\* A retry issued on the former collection is in flight while the new run's
\* placeholders are in place.
C32_Witness ==
    /\ Len(storyboardScenes) > 0
    /\ \E i \in SceneIndices :
          /\ stale.retries[i] > 0
          /\ i <= Len(storyboardScenes)

\* C33: a poll is issued only for the operation of the latest attempt, and
\* the settling of a poll or fetch of an earlier attempt's operation changes
\* nothing of what the session shows.
C33_PollsLatestHandle ==
    [][\A a \in AttemptIds :
          /\ polls'[a] > polls[a] => a = attempts
          /\ (a # attempts /\ (PollSettle(a) \/ FetchSettle(a))) =>
                SessionState' = SessionState]_vars

\* Generate was pressed again from status error: the second attempt's start
\* call is pending and the operation of the first attempt is still held.
C33_Witness ==
    /\ isVideoModalOpen
    /\ videoModal.status = "generating"
    /\ attempts = 2
    /\ 2 \in starts
    /\ videoModal.operation.name = 1

\* C34: while the modal stays open, isCheckingKey, once false, stays false,
\* and a delayed resetState of an earlier close that fires in the open
\* session changes nothing of the modal's state or timers.
C34_CheckedStaysChecked ==
    [][(isVideoModalOpen /\ isVideoModalOpen') =>
          /\ ~videoModal.isCheckingKey => ~videoModal'.isCheckingKey
          /\ ResetTimeoutFires =>
                (videoModal' = videoModal /\ intervals' = intervals)]_vars

\* The modal was reopened and its credential check has resolved while the
\* delayed resetState of the close before is still to fire.
C34_Witness ==
    /\ isVideoModalOpen
    /\ resetTimeouts > 0
    /\ keyChecks = 0
    /\ ~videoModal.isCheckingKey

\* The edit requests in flight for scene i.
EditsOn(i) ==
    Total(edits, {key \in EditKeys : key.index = i})

\* C35: for each scene at most one edit request is in flight, and while the
\* edit of the scene shown in EditImageModal is unresolved isEditing is true
\* (so that handleSubmit ignores a further submit).
C35_SingleEditInFlight ==
    \A i \in SceneIndices :
        /\ EditsOn(i) <= 1
        /\ (EditsOn(i) > 0 /\ editingSceneIndex = i /\ stale = NoneStale) => isEditing

\* An edit submitted from the modal is unresolved and the modal still shows
\* its scene.
C35_Witness ==
    \E i \in SceneIndices :
        /\ EditsOn(i) > 0
        /\ editingSceneIndex = i
        /\ ModalShown
        /\ stale = NoneStale

\* C36: when the edit request of the scene shown in EditImageModal fails,
\* the modal's error holds the failure message after the step, although the
\* step also restores the scene's previous image in the collection.
C36_EditErrorKept ==
    [][\A key \in EditKeys : \A reply \in EditReplies :
          (/\ ~editSceneImage(reply).ok
           /\ ModalShown
           /\ editingSceneIndex = key.index
           /\ stale.edits[key] = 0
           /\ EditSettleWith(key, reply)) =>
              editError' = editSceneImage(reply).value]_vars

\* The modal shows a scene whose edit request, issued on the present
\* collection with the image the record holds, is unresolved.
C36_Witness ==
    /\ ModalShown
    /\ \E key \in EditKeys :
          /\ key.index = editingSceneIndex
          /\ edits[key] > 0
          /\ stale.edits[key] = 0
          /\ storyboardScenes[key.index].imageUrl = key.originalUrl

\* The scene exported under each number is the scene at that position of
\* the Scene Collection.
NumbersArePanelNumbers(entries) ==
    \A e \in entries :
        /\ e.number <= Len(storyboardScenes)
        /\ storyboardScenes[e.number].title = e.title
        /\ storyboardScenes[e.number].imageUrl = e.imageUrl

\* C37: in the archive and in the document the number attached to a scene
\* is the scene's panel number in the storyboard, also when an earlier
\* scene has no image.
C37_ExportNumbering ==
    [][/\ handleExportZip => NumbersArePanelNumbers(exported'.zip)
       /\ handleExportPdf => NumbersArePanelNumbers(exported'.pdf)]_vars

\* An archive has been made of a storyboard whose first scene has no image
\* and whose second scene has one.
C37_Witness ==
    /\ ExportControlsShown
    /\ Len(storyboardScenes) = 2
    /\ ~HasImage(storyboardScenes[1])
    /\ HasImage(storyboardScenes[2])
    /\ exported.zip = NumberedScenes(ScenesProp(storyboardScenes))

\* C38: sanitizeFileName is idempotent: applied to a name it has produced,
\* each copy returns that name.
C38_Idempotent ==
    /\ \A name \in fileNames.export : sanitizeFileName(name) = name
    /\ \A name \in fileNames.video : sanitizeFileNameVideo(name) = name

\* Both copies have produced a name that differs from the prompt it was
\* made of.
C38_Witness ==
    /\ fileNames.export # {}
    /\ fileNames.video # {}
    /\ prompt \notin fileNames.export
    /\ prompt \notin fileNames.video

====
